---- MODULE Spec2Model ----
(***************************************************************************)
(* The venue list application: the list controller (App), the form         *)
(* controller (VenueForm) and the external store they talk to.  Every      *)
(* asynchronous handler is split at its awaits: the part up to the first   *)
(* await is one action, every continuation after a response is another.    *)
(* A handler computes with the state its render closure captured when the  *)
(* user event fired; functional state updates (prev => ...) apply to the   *)
(* state current at the time they run.  State setters of an unmounted form *)
(* are no-ops.                                                             *)
(***************************************************************************)
EXTENDS Integers, Sequences, FiniteSets, TLC

\* ------------------------------------------------------------------ bounds
\* form sessions opened in one run
MaxSessions == 2
\* asynchronous form operations (saves, image batches, brochure uploads,
\* location auto-fills) started in one run of a form session
MaxOps == 2
\* the same, in the longer runs of a form session
MaxLongOps == 3
\* image batches started in one run of the image operations
MaxBatches == 2
\* saves started in one run of the application
MaxSaves == 1
\* files in one dropped or pasted batch
MaxFiles == 3
\* image removals and reorders in one run
MaxImageEdits == 1
\* characters of a duration string of the directions API
MaxDurationLen == 3
\* venues in the list that is sorted
MaxVenues == 3
\* the largest drive time displayed
MaxMinutes == 130

\* ------------------------------------------------------- program constants
MAX_IMAGES == 10
\* a draft without identifier (formData.id undefined)
NoId == 0

\* ------------------------------------------------------------------ values
\* drive_time_minutes: null, a number, or NaN
Null == [k |-> "null"]
NaN == [k |-> "nan"]
Num(n) == [k |-> "num", v |-> n]

\* The public URL of the idx-th file uploaded by operation op (the file names
\* are random, so every upload has a URL of its own); operation 0 is what
\* the buckets held before.
Url(op, idx) == [op |-> op, idx |-> idx]

\* the empty brochure_url ""
NoUrl == Url(0, 0)

Names == {"", "N"}
Locations == {"", "A", "B"}

Min(a, b) == IF a < b THEN a ELSE b

\* no handler completed in the last step
NoEvent == [kind |-> "none"]

\* a string of a nullable text column, as its characters
Str(s) == [k |-> "str", v |-> s]

\* the sentinel price "Unavailable"
Unavailable == Str(<<"U", "n", "a", "v", "a", "i", "l", "a", "b", "l", "e">>)

\* The store as it is when the application is loaded: one venue with nine
\* images and a drive time, one with neither.
InitialRows ==
    << [id |-> 1, name |-> "N", location |-> "A", brochure_url |-> NoUrl,
        price_saturday |-> Str(<<"8", "0", "0">>), drive_time_minutes |-> Num(30),
        active |-> TRUE, images |-> [i \in 1..9 |-> Url(0, i)]],
       [id |-> 2, name |-> "N", location |-> "B", brochure_url |-> NoUrl,
        price_saturday |-> Unavailable, drive_time_minutes |-> Null,
        active |-> TRUE, images |-> <<>>] >>

VARIABLES
    apiKey,         \* VITE_GOOGLE_MAPS_API_KEY is configured
    rows,           \* the store's venues table
    imgBucket,      \* the URLs of the objects of the images bucket
    brochureBucket, \* the URLs of the objects of the brochures bucket
    venues,         \* App: the in-memory list
    listLoading,    \* App: loading
    view,           \* App: "list" | "create" | "edit"
    editingVenue,   \* App: <<>> (undefined) or <<row>>
    sortOption,     \* App: "alphabetic" | "distance" | "price_saturday"
    fetches,        \* fetchVenues calls in flight
    nFetch,         \* fetchVenues calls started
    session,        \* form sessions opened (the open form's session id)
    initialData,    \* VenueForm prop: <<>> (undefined) or <<row>>
    formData,       \* VenueForm: the draft
    loading,        \* VenueForm: loading
    searching,      \* VenueForm: searching
    saves,          \* handleSubmit calls in flight
    batches,        \* uploadImages calls in flight
    brochures,      \* handleBrochureUpload calls in flight
    autofills,      \* handleAutoFillLocation calls in flight
    started,        \* asynchronous form operations started, by kind
    opLimit,        \* how many of them the run may start
    nEdits,         \* image removals and reorders done
    last            \* what the last completed handler observed

vars == << apiKey, rows, imgBucket, brochureBucket, venues,
           listLoading, view, editingVenue, sortOption, fetches, nFetch, session,
           initialData, formData, loading, searching, saves, batches,
           brochures, autofills, started, opLimit, nEdits, last >>

storeVars == << rows, imgBucket, brochureBucket >>
appVars == << venues, listLoading, view, editingVenue, sortOption, fetches, nFetch >>
formVars == << session, initialData, formData, loading, searching >>
opVars == << saves, batches, brochures, autofills >>

\* the run may start one more asynchronous form operation
CanStart ==
    started.save + started.batch + started.brochure + started.autofill < opLimit

\* ------------------------------------------------------------ VenueForm
\* useState initial value of formData
InitialFormData(init) ==
    IF init = <<>>
    THEN [id |-> NoId, name |-> "", location |-> "", brochure_url |-> NoUrl,
          price_saturday |-> Str(<<>>), drive_time_minutes |-> Null,
          active |-> TRUE, images |-> <<>>]
    ELSE init[1]

\* the state of the form variables while no form is mounted
ClosedForm ==
    /\ initialData' = <<>>
    /\ formData' = InitialFormData(<<>>)
    /\ loading' = FALSE
    /\ searching' = FALSE

FormOpen == view # "list"

\* the form that started operation o is still mounted
Alive(o) == FormOpen /\ o.sid = session

\* ------------------------------------------------------------------- App
\* the state after construction: the mount effect has called fetchVenues
Init ==
    /\ apiKey \in BOOLEAN
    /\ rows = InitialRows
    /\ imgBucket = {Url(0, i) : i \in 1..9}
    /\ brochureBucket = {}
    /\ venues = <<>>
    /\ listLoading = TRUE
    /\ view = "list"
    /\ editingVenue = <<>>
    /\ sortOption = "alphabetic"
    /\ fetches = {[fid |-> 1, served |-> FALSE, data |-> <<>>]}
    /\ nFetch = 1
    /\ session = 0
    /\ initialData = <<>>
    /\ formData = InitialFormData(<<>>)
    /\ loading = FALSE
    /\ searching = FALSE
    /\ saves = {}
    /\ batches = {}
    /\ brochures = {}
    /\ autofills = {}
    /\ started = [save |-> 0, batch |-> 0, brochure |-> 0, autofill |-> 0]
    /\ opLimit = MaxSaves
    /\ nEdits = 0
    /\ last = NoEvent

\* the store answers a select("*") with the rows it holds at that moment
FetchServe(f) ==
    /\ f \in fetches /\ ~f.served
    /\ fetches' = (fetches \ {f}) \cup {[f EXCEPT !.served = TRUE, !.data = rows]}
    /\ last' = NoEvent
    /\ UNCHANGED << apiKey, opLimit, sortOption, storeVars, venues, listLoading, view, editingVenue,
                    nFetch, formVars, opVars, started, nEdits >>

\* fetchVenues after its await: data arrived
FetchOk(f) ==
    /\ f \in fetches /\ f.served
    /\ venues' = f.data
    /\ listLoading' = FALSE
    /\ fetches' = fetches \ {f}
    /\ last' = [kind |-> "fetchOk", fid |-> f.fid, data |-> f.data,
                before |-> venues, started |-> nFetch,
                inFlight |-> Cardinality(fetches) - 1]
    /\ UNCHANGED << apiKey, opLimit, sortOption, storeVars, view, editingVenue, nFetch, formVars,
                    opVars, started, nEdits >>

\* FetchFail with the list cleared in the catch branch
FetchFail_ClearsList(f) ==
    /\ f \in fetches
    /\ venues' = <<>>
    /\ listLoading' = FALSE
    /\ fetches' = fetches \ {f}
    /\ last' = [kind |-> "fetchFail", fid |-> f.fid, before |-> venues,
                started |-> nFetch, inFlight |-> Cardinality(fetches) - 1]
    /\ UNCHANGED << apiKey, opLimit, sortOption, storeVars, view, editingVenue, nFetch,
                    formVars, opVars, started, nEdits >>

\* fetchVenues after its await: the read failed
FetchFail(f) ==
    /\ f \in fetches
    /\ listLoading' = FALSE
    /\ fetches' = fetches \ {f}
    /\ last' = [kind |-> "fetchFail", fid |-> f.fid, before |-> venues,
                started |-> nFetch, inFlight |-> Cardinality(fetches) - 1]
    /\ UNCHANGED << apiKey, opLimit, sortOption, storeVars, venues, view, editingVenue, nFetch,
                    formVars, opVars, started, nEdits >>

handleEdit(i) ==
    /\ view = "list" /\ ~listLoading
    /\ i \in DOMAIN venues
    /\ session < MaxSessions
    /\ editingVenue' = <<venues[i]>>
    /\ view' = "edit"
    /\ session' = session + 1
    /\ initialData' = <<venues[i]>>
    /\ formData' = InitialFormData(<<venues[i]>>)
    /\ loading' = FALSE
    /\ searching' = FALSE
    /\ last' = NoEvent
    /\ UNCHANGED << apiKey, opLimit, sortOption, storeVars, venues, listLoading, fetches, nFetch,
                    opVars, started, nEdits >>

handleCreate ==
    /\ view = "list"
    /\ session < MaxSessions
    /\ editingVenue' = <<>>
    /\ view' = "create"
    /\ session' = session + 1
    /\ initialData' = <<>>
    /\ formData' = InitialFormData(<<>>)
    /\ loading' = FALSE
    /\ searching' = FALSE
    /\ last' = NoEvent
    /\ UNCHANGED << apiKey, opLimit, sortOption, storeVars, venues, listLoading, fetches, nFetch,
                    opVars, started, nEdits >>

handleCancel ==
    /\ FormOpen
    /\ view' = "list"
    /\ editingVenue' = <<>>
    /\ ClosedForm
    /\ last' = NoEvent
    /\ UNCHANGED << apiKey, opLimit, sortOption, storeVars, venues, listLoading, fetches, nFetch,
                    session, opVars, started, nEdits >>

\* ---------------------------------------------------------- field edits
handleChange(name, value) ==
    /\ FormOpen
    /\ formData' = [formData EXCEPT ![name] = value]
    /\ last' = NoEvent
    /\ UNCHANGED << apiKey, opLimit, storeVars, appVars, session, initialData, loading,
                    searching, opVars, started, nEdits >>

\* ------------------------------------------------------ calculateDriveTime
Digits == <<"0", "1", "2", "3", "4", "5", "6", "7", "8", "9">>

IsDigit(c) == \E i \in 1..10 : Digits[i] = c

DigitVal(c) == (CHOOSE i \in 1..10 : Digits[i] = c) - 1

\* String.prototype.replace("s", ""): the first "s" is removed
RECURSIVE ReplaceFirstS(_)
ReplaceFirstS(s) ==
    IF s = <<>> THEN <<>>
    ELSE IF Head(s) = "s" THEN Tail(s)
    ELSE <<Head(s)>> \o ReplaceFirstS(Tail(s))

RECURSIVE SkipSpaces(_)
SkipSpaces(s) ==
    IF s # <<>> /\ Head(s) = " " THEN SkipSpaces(Tail(s)) ELSE s

\* the value of the leading digit run of s, continuing from acc
RECURSIVE DigitRun(_, _)
DigitRun(s, acc) ==
    IF s # <<>> /\ IsDigit(Head(s))
    THEN DigitRun(Tail(s), 10 * acc + DigitVal(Head(s)))
    ELSE acc

\* parseInt(s, 10): leading white space, an optional sign, the leading digit
\* run; NaN when there is no digit
ParseInt(s) ==
    LET t == SkipSpaces(s)
        neg == t # <<>> /\ Head(t) = "-"
        u == IF t # <<>> /\ Head(t) \in {"-", "+"} THEN Tail(t) ELSE t
    IN  IF u = <<>> \/ ~IsDigit(Head(u)) THEN NaN
        ELSE Num(IF neg THEN 0 - DigitRun(u, 0) ELSE DigitRun(u, 0))

\* Math.round(x / 60): the nearest integer, halves rounded up
RoundMinutes(x) ==
    IF x = NaN THEN NaN ELSE Num((x.v + 30) \div 60)

\* the part of calculateDriveTime that follows the request: what it returns
\* for a response of the directions API
DriveTimeOf(resp) ==
    IF resp.kind # "ok" THEN Null
    ELSE IF resp.routes = <<>> THEN Null
    ELSE IF resp.routes[1].duration = <<>> THEN Null
    ELSE RoundMinutes(ParseInt(ReplaceFirstS(resp.routes[1].duration)))

\* the responses of the directions API: the request fails, the status is
\* not 2xx, or a body with routes; a missing or empty duration is <<>>
DirResponses ==
    { [kind |-> "network"], [kind |-> "status"] }
    \cup { [kind |-> "ok", routes |-> r] :
             r \in { <<>>,
                     <<[duration |-> <<>>]>>,
                     <<[duration |-> <<"9", "0", "s">>]>>,
                     <<[duration |-> <<"9", "0", "s">>], [duration |-> <<"2", "9", "s">>]>>,
                     <<[duration |-> <<"x">>]>> } }

\* -------------------------------------------------------------- handleSubmit
\* initialData?.location; <<>> is undefined
InitialLocation == IF initialData = <<>> THEN <<>> ELSE <<initialData[1].location>>

\* NeedsDriveTime without the comparison with the pre-edit location
NeedsDriveTime_AnyLocation == formData.location # ""

\* the condition under which handleSubmit calls calculateDriveTime
NeedsDriveTime ==
    LET locationChanged == <<formData.location>> # InitialLocation
        isNew == formData.id = NoId
    IN  formData.location # "" /\ (locationChanged \/ isNew)

\* DriveTimeToSave without the null test: a null result overwrites
DriveTimeToSave_Overwrites(driveTime, calculatedTime) == calculatedTime

\* driveTime once calculateDriveTime returned calculatedTime
DriveTimeToSave(driveTime, calculatedTime) ==
    IF calculatedTime # Null THEN calculatedTime ELSE driveTime

\* dataToSave
DataToSave(data, driveTime) ==
    [data EXCEPT !.drive_time_minutes = driveTime]

\* WriteCall with the identifier test lost: every save inserts
WriteCall_InsertOnly(data, driveTime) ==
    [api |-> "insert", key |-> NoId, row |-> DataToSave(data, driveTime)]

\* the store call handleSubmit makes for dataToSave
WriteCall(data, driveTime) ==
    IF data.id # NoId
    THEN [api |-> "update", key |-> data.id, row |-> DataToSave(data, driveTime)]
    ELSE [api |-> "insert", key |-> NoId, row |-> DataToSave(data, driveTime)]

\* a number as the JSON request body carries it: NaN is sent as null
Json(d) == IF d = NaN THEN Null ELSE d

\* the table after the store applied a write
Applied(call) ==
    LET row == [call.row EXCEPT !.drive_time_minutes = Json(@)]
    IN  IF call.api = "update"
        THEN [i \in DOMAIN rows |-> IF rows[i].id = call.key THEN row ELSE rows[i]]
        ELSE Append(rows, [row EXCEPT !.id = Len(rows) + 1])

\* the Save button pressed: up to the first await.  Without an API key
\* calculateDriveTime returns null without a request and the write follows.
handleSubmit ==
    /\ FormOpen /\ ~loading
    /\ formData.name # "" /\ formData.location # ""
    /\ CanStart
    /\ started' = [started EXCEPT !.save = @ + 1]
    /\ loading' = TRUE
    /\ LET sv == [op |-> started.save + 1, sid |-> session, data |-> formData,
                  init |-> InitialLocation,
                  driveTime |-> formData.drive_time_minutes,
                  calc |-> <<>>, calls |-> <<>>, pc |-> "directions"]
       IN  saves' = saves \cup
             { IF NeedsDriveTime /\ apiKey
               THEN [sv EXCEPT !.calls = <<[api |-> "directions", dest |-> formData.location]>>]
               ELSE [sv EXCEPT !.pc = "write",
                               !.calc = IF NeedsDriveTime THEN <<Null>> ELSE <<>>,
                               !.calls = <<WriteCall(formData, formData.drive_time_minutes)>>] }
    /\ last' = NoEvent
    /\ UNCHANGED << apiKey, opLimit, storeVars, appVars, session, initialData, formData,
                    searching, batches, brochures, autofills, nEdits >>

\* handleSubmit after calculateDriveTime returned: the store write is issued
DirectionsResponse(sv, resp) ==
    /\ sv \in saves /\ sv.pc = "directions"
    /\ LET calculatedTime == DriveTimeOf(resp)
           driveTime == DriveTimeToSave(sv.driveTime, calculatedTime)
       IN  saves' = (saves \ {sv}) \cup
             { [sv EXCEPT !.pc = "write", !.driveTime = driveTime,
                          !.calc = <<calculatedTime>>,
                          !.calls = Append(@, WriteCall(sv.data, driveTime))] }
    /\ last' = NoEvent
    /\ UNCHANGED << apiKey, opLimit, storeVars, appVars, formVars, batches, brochures,
                    autofills, started, nEdits >>

\* App.handleSave, called by the form as onSave
handleSave ==
    /\ fetches' = fetches \cup {[fid |-> nFetch + 1, served |-> FALSE, data |-> <<>>]}
    /\ nFetch' = nFetch + 1
    /\ listLoading' = TRUE
    /\ view' = "list"
    /\ editingVenue' = <<>>

\* handleSubmit after the store write succeeded
WriteOk(sv) ==
    /\ sv \in saves /\ sv.pc = "write"
    /\ rows' = Applied(sv.calls[Len(sv.calls)])
    /\ handleSave
    /\ ClosedForm
    /\ saves' = saves \ {sv}
    /\ last' = [kind |-> "saveOk", save |-> sv, alive |-> Alive(sv),
                viewBefore |-> view, sessionOpen |-> IF FormOpen THEN session ELSE 0,
                draftBefore |-> formData, fetchesBefore |-> nFetch,
                rowsBefore |-> rows]
    /\ UNCHANGED << apiKey, opLimit, sortOption, imgBucket, brochureBucket, venues, session,
                    batches, brochures, autofills, started, nEdits >>

\* WriteFail with onSave called on the failure path too
WriteFail_CallsOnSave(sv) ==
    /\ sv \in saves /\ sv.pc = "write"
    /\ handleSave
    /\ ClosedForm
    /\ saves' = saves \ {sv}
    /\ last' = [kind |-> "saveFail", save |-> sv, alive |-> Alive(sv),
                viewBefore |-> view, draftBefore |-> formData,
                fetchesBefore |-> nFetch, rowsBefore |-> rows]
    /\ UNCHANGED << apiKey, opLimit, sortOption, storeVars, venues, session, batches,
                    brochures, autofills, started, nEdits >>

\* handleSubmit after the store write failed
WriteFail(sv) ==
    /\ sv \in saves /\ sv.pc = "write"
    /\ loading' = IF Alive(sv) THEN FALSE ELSE loading
    /\ saves' = saves \ {sv}
    /\ last' = [kind |-> "saveFail", save |-> sv, alive |-> Alive(sv),
                viewBefore |-> view, draftBefore |-> formData,
                fetchesBefore |-> nFetch, rowsBefore |-> rows]
    /\ UNCHANGED << apiKey, opLimit, storeVars, appVars, session, initialData, formData,
                    searching, batches, brochures, autofills, started, nEdits >>

\* FilesToUpload without the slice to the remaining slots
FilesToUpload_All(n, k) == k

\* -------------------------------------------------------------- uploadImages
\* files.slice(0, remainingSlots): how many files of a batch of k are uploaded
\* when the draft holds n images
FilesToUpload(n, k) == Min(k, MAX_IMAGES - n)

\* uploadImages(files) for a batch of k >= 1 files, up to its first await
uploadImages(k) ==
    /\ FormOpen
    /\ LET currentImages == formData.images
       IN  IF Len(currentImages) >= MAX_IMAGES
           THEN /\ last' = [kind |-> "batchRejected", n |-> Len(currentImages),
                            files |-> k, before |-> formData.images,
                            bucket |-> imgBucket, batches |-> batches]
                /\ UNCHANGED << loading, batches, started >>
           ELSE /\ CanStart
                /\ started' = [started EXCEPT !.batch = @ + 1]
                /\ loading' = TRUE
                /\ batches' = batches \cup
                     {[op |-> started.batch + 1, sid |-> session,
                       n |-> Len(currentImages), files |-> k,
                       toUpload |-> FilesToUpload(Len(currentImages), k)]}
                /\ last' = NoEvent
    /\ UNCHANGED << apiKey, opLimit, storeVars, appVars, session, initialData, formData,
                    searching, saves, brochures, autofills, nEdits >>

\* isMaxed
isMaxed == Len(formData.images) >= MAX_IMAGES

\* the dropzone is disabled while loading or at the cap
handleDrop(k) == ~(loading \/ isMaxed) /\ uploadImages(k)

\* the paste handler of the dropzone's root element
handlePaste(k) == uploadImages(k)

\* what setFormData(prev => ...) leaves in images once a batch is uploaded
AppendImages(prev, newImageUrls) == prev \o newImageUrls

\* the URLs of the first m files of batch b, in the order of the files
NewImageUrls(b, m) == [i \in 1..m |-> Url(b.op, i)]

\* uploadImages after its awaits, every storage upload having succeeded: the
\* files were uploaded one after the other, then the urls are added to the
\* draft.  (Between two uploads the handler touches nothing but its own
\* newImageUrls, so the loop is one step.)
UploadsOk(b) ==
    /\ b \in batches
    /\ LET newImageUrls == NewImageUrls(b, b.toUpload)
       IN  /\ imgBucket' = imgBucket \cup {newImageUrls[i] : i \in 1..b.toUpload}
           /\ formData' = IF Alive(b)
                          THEN [formData EXCEPT !.images = AppendImages(@, newImageUrls)]
                          ELSE formData
    /\ batches' = batches \ {b}
    /\ loading' = IF Alive(b) THEN FALSE ELSE loading
    /\ last' = [kind |-> "batchDone", batch |-> b, alive |-> Alive(b),
                before |-> formData.images, bucket |-> imgBucket]
    /\ UNCHANGED << apiKey, opLimit, rows, brochureBucket, appVars, session, initialData,
                    searching, saves, brochures, autofills, started, nEdits >>

\* UploadFail with the URLs uploaded before the failure added to the draft
UploadFail_KeepsUploaded(b, j) ==
    /\ b \in batches
    /\ j \in 1..b.toUpload
    /\ imgBucket' = imgBucket \cup {Url(b.op, i) : i \in 1..(j - 1)}
    /\ formData' = IF Alive(b)
                   THEN [formData EXCEPT !.images = @ \o [i \in 1..(j - 1) |-> Url(b.op, i)]]
                   ELSE formData
    /\ batches' = batches \ {b}
    /\ loading' = IF Alive(b) THEN FALSE ELSE loading
    /\ last' = [kind |-> "batchFail", batch |-> b, alive |-> Alive(b),
                failed |-> j, before |-> formData.images, bucket |-> imgBucket]
    /\ UNCHANGED << apiKey, opLimit, rows, brochureBucket, appVars, session,
                    initialData, searching, saves, brochures, autofills,
                    started, nEdits >>

\* uploadImages after its awaits, the storage upload of file j having failed:
\* the files before it were uploaded, the ones after it are not
UploadFail(b, j) ==
    /\ b \in batches
    /\ j \in 1..b.toUpload
    /\ imgBucket' = imgBucket \cup {Url(b.op, i) : i \in 1..(j - 1)}
    /\ batches' = batches \ {b}
    /\ loading' = IF Alive(b) THEN FALSE ELSE loading
    /\ last' = [kind |-> "batchFail", batch |-> b, alive |-> Alive(b),
                failed |-> j, before |-> formData.images, bucket |-> imgBucket]
    /\ UNCHANGED << apiKey, opLimit, rows, brochureBucket, appVars, session, initialData,
                    formData, searching, saves, brochures, autofills, started,
                    nEdits >>

\* ------------------------------------------------- removeImage, moveImage
\* the positions (from 0) the user acts on
EditIndexes == {i \in {0, 1, Len(formData.images) - 1} : i >= 0 /\ i < Len(formData.images)}

\* images.filter((_, i) => i !== index)
Filtered(images, index) ==
    [j \in 1..(Len(images) - 1) |-> IF j <= index THEN images[j] ELSE images[j + 1]]

\* Swapped with only one of the two assignments
Swapped_Overwrites(images, i, j) ==
    [images EXCEPT ![i + 1] = images[j + 1]]

\* images with positions i and j (from 0) swapped
Swapped(images, i, j) ==
    [images EXCEPT ![i + 1] = images[j + 1], ![j + 1] = images[i + 1]]

\* removeImage with the stored object of the removed image deleted
removeImage_DeletesObject(index) ==
    /\ FormOpen /\ nEdits < MaxImageEdits
    /\ index \in EditIndexes
    /\ nEdits' = nEdits + 1
    /\ formData' = [formData EXCEPT !.images = Filtered(@, index)]
    /\ imgBucket' = imgBucket \ {formData.images[index + 1]}
    /\ last' = [kind |-> "remove", index |-> index, before |-> formData.images,
                bucket |-> imgBucket]
    /\ UNCHANGED << apiKey, opLimit, rows, brochureBucket, appVars, session,
                    initialData, loading, searching, opVars, started >>

removeImage(index) ==
    /\ FormOpen /\ nEdits < MaxImageEdits
    /\ index \in EditIndexes
    /\ nEdits' = nEdits + 1
    /\ formData' = [formData EXCEPT !.images = Filtered(@, index)]
    /\ last' = [kind |-> "remove", index |-> index, before |-> formData.images,
                bucket |-> imgBucket]
    /\ UNCHANGED << apiKey, opLimit, storeVars, appVars, session, initialData, loading,
                    searching, opVars, started >>

moveImage(index, direction) ==
    /\ FormOpen /\ nEdits < MaxImageEdits
    /\ index \in EditIndexes
    /\ nEdits' = nEdits + 1
    /\ LET images == formData.images
       IN  formData' =
             IF direction = "up"
             THEN IF index = 0 THEN formData
                  ELSE [formData EXCEPT !.images = Swapped(images, index, index - 1)]
             ELSE IF index = Len(images) - 1 THEN formData
                  ELSE [formData EXCEPT !.images = Swapped(images, index, index + 1)]
    /\ last' = [kind |-> "move", index |-> index, direction |-> direction,
                before |-> formData.images]
    /\ UNCHANGED << apiKey, opLimit, storeVars, appVars, session, initialData, loading,
                    searching, opVars, started >>

\* ------------------------------------------------------ handleBrochureUpload
handleBrochureUpload ==
    /\ FormOpen /\ CanStart
    /\ started' = [started EXCEPT !.brochure = @ + 1]
    /\ loading' = TRUE
    /\ brochures' = brochures \cup {[op |-> started.brochure + 1, sid |-> session]}
    /\ last' = NoEvent
    /\ UNCHANGED << apiKey, opLimit, storeVars, appVars, session, initialData, formData,
                    searching, saves, batches, autofills, nEdits >>

BrochureOk(b) ==
    /\ b \in brochures
    /\ brochures' = brochures \ {b}
    /\ brochureBucket' = brochureBucket \cup {Url(b.op, 1)}
    /\ formData' = IF Alive(b) THEN [formData EXCEPT !.brochure_url = Url(b.op, 1)]
                   ELSE formData
    /\ loading' = IF Alive(b) THEN FALSE ELSE loading
    /\ last' = [kind |-> "brochureOk", alive |-> Alive(b), before |-> formData,
                url |-> Url(b.op, 1)]
    /\ UNCHANGED << apiKey, opLimit, rows, imgBucket, appVars, session, initialData,
                    searching, saves, batches, autofills, started, nEdits >>

\* BrochureFail with the draft's brochure_url cleared
BrochureFail_ClearsUrl(b) ==
    /\ b \in brochures
    /\ brochures' = brochures \ {b}
    /\ formData' = IF Alive(b) THEN [formData EXCEPT !.brochure_url = NoUrl]
                   ELSE formData
    /\ loading' = IF Alive(b) THEN FALSE ELSE loading
    /\ last' = [kind |-> "brochureFail", alive |-> Alive(b), before |-> formData]
    /\ UNCHANGED << apiKey, opLimit, storeVars, appVars, session, initialData,
                    searching, saves, batches, autofills, started, nEdits >>

BrochureFail(b) ==
    /\ b \in brochures
    /\ brochures' = brochures \ {b}
    /\ loading' = IF Alive(b) THEN FALSE ELSE loading
    /\ last' = [kind |-> "brochureFail", alive |-> Alive(b), before |-> formData]
    /\ UNCHANGED << apiKey, opLimit, storeVars, appVars, session, initialData, formData,
                    searching, saves, batches, autofills, started, nEdits >>

\* ---------------------------------------------------- handleAutoFillLocation
\* the responses of the places search: the request fails, the status is not
\* 2xx, or a body with the formatted addresses of the places found
PlacesResponses ==
    { [kind |-> "network"], [kind |-> "status"],
      [kind |-> "ok", places |-> <<>>], [kind |-> "ok", places |-> <<"B", "A">>] }

\* the auto-fill button pressed: up to the first await.  Without an API key
\* the handler alerts and returns.
handleAutoFillLocation ==
    /\ FormOpen /\ ~(searching \/ formData.name = "")
    /\ IF ~apiKey
       THEN /\ last' = [kind |-> "autofillNoKey", before |-> formData]
            /\ UNCHANGED << searching, autofills, started >>
       ELSE /\ CanStart
            /\ started' = [started EXCEPT !.autofill = @ + 1]
            /\ searching' = TRUE
            /\ autofills' = autofills \cup
                 {[op |-> started.autofill + 1, sid |-> session, textQuery |-> formData.name]}
            /\ last' = NoEvent
    /\ UNCHANGED << apiKey, opLimit, storeVars, appVars, session, initialData, formData,
                    loading, saves, batches, brochures, nEdits >>

\* AutoFillResponse taking the last place found instead of the first
AutoFillResponse_LastPlace(a, resp) ==
    /\ a \in autofills
    /\ autofills' = autofills \ {a}
    /\ formData' = IF Alive(a) /\ resp.kind = "ok" /\ resp.places # <<>>
                   THEN [formData EXCEPT !.location = resp.places[Len(resp.places)]]
                   ELSE formData
    /\ searching' = IF Alive(a) THEN FALSE ELSE searching
    /\ last' = [kind |-> "autofill", alive |-> Alive(a), resp |-> resp,
                before |-> formData]
    /\ UNCHANGED << apiKey, opLimit, storeVars, appVars, session, initialData,
                    loading, saves, batches, brochures, started, nEdits >>

AutoFillResponse(a, resp) ==
    /\ a \in autofills
    /\ autofills' = autofills \ {a}
    /\ formData' = IF Alive(a) /\ resp.kind = "ok" /\ resp.places # <<>>
                   THEN [formData EXCEPT !.location = resp.places[1]]
                   ELSE formData
    /\ searching' = IF Alive(a) THEN FALSE ELSE searching
    /\ last' = [kind |-> "autofill", alive |-> Alive(a), resp |-> resp,
                before |-> formData]
    /\ UNCHANGED << apiKey, opLimit, storeVars, appVars, session, initialData, loading,
                    saves, batches, brochures, started, nEdits >>

\* ----------------------------------------------------------- sortedVenues
\* Infinity and -Infinity
Infinity == [k |-> "inf"]
NegInfinity == [k |-> "-inf"]

\* x - y for numbers and Infinity
Minus(x, y) ==
    IF x = Infinity /\ y = Infinity THEN NaN
    ELSE IF x = Infinity THEN Infinity
    ELSE IF y = Infinity THEN NegInfinity
    ELSE Num(x.v - y.v)

\* a.name.localeCompare(b.name), for the names of the model: the empty
\* string comes before every other string
LocaleCompare(a, b) == IF a = b THEN Num(0) ELSE IF a = "" THEN Num(0 - 1) ELSE Num(1)

\* p.replace(/,/g, "")
RemoveCommas(p) == SelectSeq(p, LAMBDA c : c # ",")

\* the part of s that starts at its first digit; <<>> when it has none
RECURSIVE FromFirstDigit(_)
FromFirstDigit(s) ==
    IF s = <<>> \/ IsDigit(Head(s)) THEN s ELSE FromFirstDigit(Tail(s))

\* getPrice with the commas kept
getPrice_KeepsCommas(p) ==
    IF p = Null \/ p = Str(<<>>) \/ p = Unavailable THEN Infinity
    ELSE LET match == FromFirstDigit(p.v)
         IN  IF match # <<>> THEN Num(DigitRun(match, 0)) ELSE Infinity

\* getPrice(p)
getPrice(p) ==
    IF p = Null \/ p = Str(<<>>) \/ p = Unavailable THEN Infinity
    ELSE LET match == FromFirstDigit(RemoveCommas(p.v))
         IN  IF match # <<>> THEN Num(DigitRun(match, 0)) ELSE Infinity

\* a.drive_time_minutes ?? Infinity, with null taken as 0
Distance_NullAsZero(v) ==
    IF v.drive_time_minutes = Null THEN Num(0) ELSE v.drive_time_minutes

\* a.drive_time_minutes ?? Infinity
Distance(v) ==
    IF v.drive_time_minutes = Null THEN Infinity ELSE v.drive_time_minutes

\* the comparator of sortedVenues
Comparator(a, b, option) ==
    CASE option = "alphabetic" -> LocaleCompare(a.name, b.name)
      [] option = "distance" -> Minus(Distance(a), Distance(b))
      [] option = "price_saturday" ->
            Minus(getPrice(a.price_saturday), getPrice(b.price_saturday))

\* Array.prototype.sort takes a comparator result as "a after b" when it is
\* greater than 0; NaN counts as 0
After(v) == v = Infinity \/ (v.k = "num" /\ v.v > 0)

\* Array.prototype.sort is stable: x goes after the elements of the sorted
\* sequence t that are not after it
RECURSIVE InsertSorted(_, _, _)
InsertSorted(t, x, option) ==
    IF t = <<>> THEN <<x>>
    ELSE IF After(Comparator(t[Len(t)], x, option))
         THEN Append(InsertSorted(SubSeq(t, 1, Len(t) - 1), x, option), t[Len(t)])
         ELSE Append(t, x)

RECURSIVE Sort(_, _)
Sort(s, option) ==
    IF s = <<>> THEN <<>>
    ELSE InsertSorted(Sort(SubSeq(s, 1, Len(s) - 1), option), s[Len(s)], option)

\* sortedVenues, computed at each render from a copy of venues
sortedVenues == Sort(venues, sortOption)

\* the sort selector changed
setSortOption(option) ==
    /\ view = "list"
    /\ sortOption' = option
    /\ last' = NoEvent
    /\ UNCHANGED << apiKey, opLimit, storeVars, venues, listLoading, view,
                    editingVenue, fetches, nFetch, formVars, opVars, started,
                    nEdits >>

\* the prices and the drive times of the rows that are sorted
Prices ==
    { Null, Str(<<>>), Unavailable, Str(<<"x">>), Str(<<"9">>),
      Str(<<"1", ",", "2">>), Str(<<"1", "0", "-", "2">>), Str(<<"x", "3">>) }

DriveTimes == { Null, Num(0), Num(30), Num(90) }

\* a fetched row: the id is the position in the fetch
SortRow(i, p, d) ==
    [id |-> i, name |-> "N", location |-> "A", brochure_url |-> NoUrl,
     price_saturday |-> p, drive_time_minutes |-> d, active |-> TRUE,
     images |-> <<>>]

\* the lists fetched: rows that differ in price, or in drive time
FetchedLists ==
    UNION { { [i \in 1..n |-> SortRow(i, f[i][1], f[i][2])] :
              f \in [1..n -> (Prices \X {Null}) \cup ({Null} \X DriveTimes)] } :
            n \in 0..MaxVenues }

\* the list loaded, no form open
InitSort ==
    /\ apiKey = TRUE
    /\ opLimit = MaxSaves
    /\ rows \in FetchedLists
    /\ venues = rows
    /\ imgBucket = {}
    /\ brochureBucket = {}
    /\ listLoading = FALSE
    /\ view = "list"
    /\ editingVenue = <<>>
    /\ sortOption = "alphabetic"
    /\ fetches = {}
    /\ nFetch = 1
    /\ session = 0
    /\ initialData = <<>>
    /\ formData = InitialFormData(<<>>)
    /\ loading = FALSE
    /\ searching = FALSE
    /\ saves = {}
    /\ batches = {}
    /\ brochures = {}
    /\ autofills = {}
    /\ started = [save |-> 0, batch |-> 0, brochure |-> 0, autofill |-> 0]
    /\ nEdits = 0
    /\ last = NoEvent

SortNext ==
    \E option \in {"alphabetic", "distance", "price_saturday"} : setSortOption(option)

SpecSort == InitSort /\ [][SortNext]_vars

\* ------------------------------------------------- VenueCard.formatDriveTime
\* the decimal digits of a number, as a template literal prints it
RECURSIVE NumberString(_)
NumberString(n) ==
    IF n < 0 THEN <<"-">> \o NumberString(0 - n)
    ELSE IF n < 10 THEN <<Digits[n + 1]>>
    ELSE Append(NumberString(n \div 10), Digits[(n % 10) + 1])

MinsText == <<" ", "m", "i", "n", "s">>
HrText == <<" ", "h", "r", " ">>

\* formatDriveTime with the hour boundary off by one
formatDriveTime_HourAsMins(minutes) ==
    IF minutes = Null \/ minutes = NaN \/ minutes.v = 0 THEN Null
    ELSE IF minutes.v <= 60 THEN Str(NumberString(minutes.v) \o MinsText)
    ELSE LET hours == minutes.v \div 60
             mins == minutes.v % 60
         IN  Str(NumberString(hours) \o HrText \o NumberString(mins) \o MinsText)

\* formatDriveTime(minutes)
formatDriveTime(minutes) ==
    IF minutes = Null \/ minutes = NaN \/ minutes.v = 0 THEN Null
    ELSE IF minutes.v < 60 THEN Str(NumberString(minutes.v) \o MinsText)
    ELSE LET hours == minutes.v \div 60
             mins == minutes.v % 60
         IN  Str(NumberString(hours) \o HrText \o NumberString(mins) \o MinsText)

\* the card of venue i is rendered with its driveTimeDisplay
VenueCard(i) ==
    /\ view = "list" /\ ~listLoading
    /\ i \in DOMAIN sortedVenues
    /\ last' = [kind |-> "card", minutes |-> sortedVenues[i].drive_time_minutes,
                driveTimeDisplay |-> formatDriveTime(sortedVenues[i].drive_time_minutes)]
    /\ UNCHANGED << apiKey, opLimit, storeVars, appVars, formVars, opVars,
                    started, nEdits >>

\* the list loaded with one venue, whatever its drive time
InitCard ==
    /\ apiKey = TRUE
    /\ opLimit = MaxSaves
    /\ rows \in { <<SortRow(1, Null, d)>> : d \in {Null} \cup {Num(n) : n \in 0..MaxMinutes} }
    /\ venues = rows
    /\ imgBucket = {}
    /\ brochureBucket = {}
    /\ listLoading = FALSE
    /\ view = "list"
    /\ editingVenue = <<>>
    /\ sortOption = "alphabetic"
    /\ fetches = {}
    /\ nFetch = 1
    /\ session = 0
    /\ initialData = <<>>
    /\ formData = InitialFormData(<<>>)
    /\ loading = FALSE
    /\ searching = FALSE
    /\ saves = {}
    /\ batches = {}
    /\ brochures = {}
    /\ autofills = {}
    /\ started = [save |-> 0, batch |-> 0, brochure |-> 0, autofill |-> 0]
    /\ nEdits = 0
    /\ last = NoEvent

CardNext == \E i \in 1..Len(venues) : VenueCard(i)

SpecCard == InitCard /\ [][CardNext]_vars

Next ==
    \/ \E f \in fetches : FetchServe(f) \/ FetchOk(f) \/ FetchFail(f)
    \/ \E i \in 1..Len(venues) : handleEdit(i)
    \/ handleCreate
    \/ handleCancel
    \/ \E v \in Names : handleChange("name", v)
    \/ \E v \in Locations : handleChange("location", v)
    \/ handleSubmit
    \/ \E sv \in saves, resp \in DirResponses : DirectionsResponse(sv, resp)
    \/ \E sv \in saves : WriteOk(sv) \/ WriteFail(sv)
    \/ \E k \in 1..MaxFiles : handleDrop(k) \/ handlePaste(k)
    \/ \E b \in batches : UploadsOk(b) \/ \E j \in 1..b.toUpload : UploadFail(b, j)
    \/ \E i \in EditIndexes : removeImage(i)
    \/ \E i \in EditIndexes, d \in {"up", "down"} : moveImage(i, d)
    \/ handleBrochureUpload
    \/ \E b \in brochures : BrochureOk(b) \/ BrochureFail(b)
    \/ handleAutoFillLocation
    \/ \E a \in autofills, resp \in PlacesResponses : AutoFillResponse(a, resp)
    \/ \E option \in {"alphabetic", "distance", "price_saturday"} : setSortOption(option)
    \/ \E i \in 1..Len(venues) : VenueCard(i)

Spec == Init /\ [][Next]_vars
\* ------------------------------------------------------- one form session
\* A form mounted over the loaded list: for a new venue, or for one of the
\* listed venues.
FormMounted ==
    /\ rows = InitialRows
    /\ imgBucket = {Url(0, i) : i \in 1..9}
    /\ brochureBucket = {}
    /\ venues = InitialRows
    /\ listLoading = FALSE
    /\ sortOption = "alphabetic"
    /\ fetches = {}
    /\ nFetch = 1
    /\ session = 1
    /\ editingVenue \in {<<>>} \cup {<<InitialRows[i]>> : i \in DOMAIN InitialRows}
    /\ initialData = editingVenue
    /\ view = IF editingVenue = <<>> THEN "create" ELSE "edit"
    /\ formData = InitialFormData(initialData)
    /\ loading = FALSE
    /\ searching = FALSE
    /\ saves = {}
    /\ batches = {}
    /\ brochures = {}
    /\ autofills = {}
    /\ started = [save |-> 0, batch |-> 0, brochure |-> 0, autofill |-> 0]
    /\ nEdits = 0
    /\ last = NoEvent

InitForm ==
    /\ apiKey \in BOOLEAN
    /\ opLimit = MaxOps
    /\ FormMounted

InitFormLong ==
    /\ apiKey \in BOOLEAN
    /\ opLimit = MaxLongOps
    /\ FormMounted

\* no image operation reads the API key
InitImages ==
    /\ apiKey = TRUE
    /\ opLimit = MaxBatches
    /\ FormMounted

\* the operations of a form session that end in a save
FormNext ==
    \/ \E v \in Names : handleChange("name", v)
    \/ \E v \in Locations : handleChange("location", v)
    \/ handleSubmit
    \/ \E sv \in saves, resp \in DirResponses : DirectionsResponse(sv, resp)
    \/ \E sv \in saves : WriteOk(sv) \/ WriteFail(sv)
    \/ \E k \in 1..MaxFiles : handleDrop(k) \/ handlePaste(k)
    \/ \E b \in batches : UploadsOk(b) \/ \E j \in 1..b.toUpload : UploadFail(b, j)
    \/ handleBrochureUpload
    \/ \E b \in brochures : BrochureOk(b) \/ BrochureFail(b)
    \/ handleAutoFillLocation
    \/ \E a \in autofills, resp \in PlacesResponses : AutoFillResponse(a, resp)
    \/ handleCancel

\* the operations of a form session on its images and files
ImagesNext ==
    \/ \E k \in 1..MaxFiles : handleDrop(k) \/ handlePaste(k)
    \/ \E b \in batches : UploadsOk(b) \/ \E j \in 1..b.toUpload : UploadFail(b, j)
    \/ \E i \in EditIndexes : removeImage(i)
    \/ \E i \in EditIndexes, d \in {"up", "down"} : moveImage(i, d)
    \/ handleCancel

\* the list, the form sessions opened from it and their saves
AppNext ==
    \/ \E f \in fetches : FetchServe(f) \/ FetchOk(f) \/ FetchFail(f)
    \/ \E i \in 1..Len(venues) : handleEdit(i)
    \/ handleCreate
    \/ handleCancel
    \/ \E v \in Names : handleChange("name", v)
    \/ \E v \in Locations : handleChange("location", v)
    \/ handleSubmit
    \/ \E sv \in saves, resp \in DirResponses : DirectionsResponse(sv, resp)
    \/ \E sv \in saves : WriteOk(sv) \/ WriteFail(sv)

SpecForm == InitForm /\ [][FormNext]_vars

SpecFormLong == InitFormLong /\ [][FormNext]_vars

SpecImages == InitImages /\ [][ImagesNext]_vars

SpecApp == Init /\ [][AppNext]_vars
\* ===================================================================== C1
\* C1: in a form session opened with at most 10 images the draft never holds
\* more than MAX_IMAGES images, whatever uploads (drop or paste, also while
\* an earlier batch is in flight), removals and reorders happen.
C1_ImagesWithinCap ==
    FormOpen => Len(formData.images) <= MAX_IMAGES

\* ===================================================================== C2
\* the store writes a save has issued
Writes(sv) == SelectSeq(sv.calls, LAMBDA c : c.api \in {"insert", "update"})

\* the saves whose store write has been issued: in flight, or just completed
Written ==
    {sv \in saves : sv.pc = "write"}
    \cup (IF last.kind \in {"saveOk", "saveFail"} THEN {last.save} ELSE {})

\* C2: every save issues exactly one store write, an insert when the draft
\* has no identifier and an update keyed by the draft's identifier when it
\* has one; the store then holds one more row, or the same rows with only
\* the row of that identifier replaced.
C2_OneWritePerSave ==
    /\ \A sv \in saves : sv.pc = "directions" => Writes(sv) = <<>>
    /\ \A sv \in Written :
         /\ Len(Writes(sv)) = 1
         /\ IF sv.data.id = NoId
            THEN Writes(sv)[1].api = "insert"
            ELSE Writes(sv)[1].api = "update" /\ Writes(sv)[1].key = sv.data.id
    /\ last.kind = "saveOk" =>
         IF last.save.data.id = NoId
         THEN /\ Len(rows) = Len(last.rowsBefore) + 1
              /\ SubSeq(rows, 1, Len(last.rowsBefore)) = last.rowsBefore
         ELSE /\ Len(rows) = Len(last.rowsBefore)
              /\ \A i \in DOMAIN rows :
                   rows[i].id # last.save.data.id => rows[i] = last.rowsBefore[i]
    /\ last.kind = "saveFail" => rows = last.rowsBefore

C2_Witness ==
    /\ last.kind = "saveOk"
    /\ last.save.data.id # NoId
    /\ rows # last.rowsBefore

\* ===================================================================== C3
\* C3: at no time are two saves of the same form session in flight.
C3_OneSaveInFlight ==
    \A sv1 \in saves : \A sv2 \in saves : sv1.sid = sv2.sid => sv1 = sv2

\* ===================================================================== C4
\* the directions requests a save has issued
Directions(sv) == SelectSeq(sv.calls, LAMBDA c : c.api = "directions")

\* the draft of save sv asks for a drive time: its location is not empty and
\* differs from the pre-edit snapshot, or the draft is new
LocationToCompute(sv) ==
    /\ sv.data.location # ""
    /\ (sv.init # <<sv.data.location>> \/ sv.data.id = NoId)

\* C4 as claimed: a save whose location is not empty and changed, or whose
\* draft is new, issues exactly one directions request before the store
\* write; every other save issues none.
C4_OneRequestWhenLocationChanged ==
    \A sv \in Written :
        /\ Len(Directions(sv)) = (IF LocationToCompute(sv) THEN 1 ELSE 0)
        /\ Len(Directions(sv)) = 1 => sv.calls[1].api = "directions"

\* C4 amended: the request is issued only when the API key is configured;
\* without the key the save issues no directions request.  When issued, the
\* request is for the draft's location and precedes the store write.
C4_OneRequestWhenLocationChangedAndKey ==
    /\ \A sv \in Written :
         /\ Len(Directions(sv)) = (IF LocationToCompute(sv) /\ apiKey THEN 1 ELSE 0)
         /\ Len(Directions(sv)) = 1 =>
              /\ sv.calls[1] = [api |-> "directions", dest |-> sv.data.location]
              /\ Len(sv.calls) = 2
    /\ \A sv \in saves :
         sv.pc = "directions" =>
             /\ LocationToCompute(sv) /\ apiKey
             /\ sv.calls = <<[api |-> "directions", dest |-> sv.data.location]>>

C4_Witness ==
    /\ last.kind = "saveOk"
    /\ last.save.data.id # NoId
    /\ Len(Directions(last.save)) = 1
    /\ last.save.calls[2].api = "update"
\* ----------------------------------------------- calculateDriveTime alone
\* the characters of the duration strings tried
DurationChars == {"0", "3", "9", "s", "x", "-"}

\* the strings of at most n characters
RECURSIVE Strings(_)
Strings(n) ==
    IF n = 0 THEN {<<>>}
    ELSE Strings(n - 1) \cup
         {Append(t, c) : t \in {u \in Strings(n - 1) : Len(u) = n - 1}, c \in DurationChars}

\* the responses tried: the failures, a body without routes, and a body whose
\* first route has a duration string
ProbeResponses ==
    { [kind |-> "network"], [kind |-> "status"], [kind |-> "ok", routes |-> <<>>] }
    \cup { [kind |-> "ok", routes |-> <<[duration |-> d]>>] : d \in Strings(MaxDurationLen) }

\* calculateDriveTime(destination), the directions API answering resp
calculateDriveTime(resp) == IF ~apiKey THEN Null ELSE DriveTimeOf(resp)

\* handleSubmit's use of calculateDriveTime for a draft whose
\* drive_time_minutes is driveTime: what it computes and what it saves
ComputeDriveTime(resp, driveTime) ==
    /\ last' = [kind |-> "driveTime", resp |-> resp, driveTime |-> driveTime,
                calculatedTime |-> calculateDriveTime(resp),
                saved |-> DriveTimeToSave(driveTime, calculateDriveTime(resp))]
    /\ UNCHANGED << apiKey, opLimit, storeVars, appVars, formVars, opVars,
                    started, nEdits >>

DriveTimeNext ==
    \E resp \in ProbeResponses, driveTime \in {Null, Num(30)} :
        ComputeDriveTime(resp, driveTime)

SpecDriveTime == InitForm /\ [][DriveTimeNext]_vars

C6_UploadWithinCapacity ==
    /\ \A b \in batches :
         /\ b.n < MAX_IMAGES
         /\ b.toUpload = Min(b.files, MAX_IMAGES - b.n)
         /\ \A u \in imgBucket : u.op # b.op
    /\ last.kind = "batchRejected" =>
         /\ last.n >= MAX_IMAGES
         /\ formData.images = last.before
         /\ imgBucket = last.bucket
         /\ batches = last.batches
    /\ last.kind = "batchDone" =>
         LET b == last.batch
             m == Min(b.files, MAX_IMAGES - b.n)
             n == Len(last.before)
         IN  /\ b.n < MAX_IMAGES
             /\ imgBucket = last.bucket \cup {Url(b.op, i) : i \in 1..m}
             /\ last.alive =>
                  /\ Len(formData.images) = n + m
                  /\ \A i \in 1..n : formData.images[i] = last.before[i]
                  /\ \A i \in 1..m : formData.images[n + i] = Url(b.op, i)
                  /\ (b.n = 9 /\ b.files = 3 /\ n = 9) => Len(formData.images) = 10

C6_Witness ==
    /\ last.kind = "batchDone"
    /\ last.alive
    /\ last.batch.n = 9
    /\ last.batch.files = 3
    /\ Len(last.before) = 9
    /\ Len(formData.images) = 10

\* ===================================================================== C7
\* C7: when the storage upload of file j of a batch fails, the files after
\* it are not uploaded, the files before it stay in the bucket, the failure
\* leaves the draft's images as they were with no URL of the batch among
\* them, and the busy flag is cleared.
C7_FailedBatchAddsNothing ==
    last.kind = "batchFail" =>
        LET b == last.batch
        IN  /\ formData.images = last.before
            /\ \A i \in DOMAIN formData.images : formData.images[i].op # b.op
            /\ imgBucket = last.bucket \cup {Url(b.op, i) : i \in 1..(last.failed - 1)}
            /\ \A u \in imgBucket : u.op = b.op => u.idx < last.failed
            /\ b \notin batches
            /\ last.alive => ~loading

C7_Witness ==
    /\ last.kind = "batchFail"
    /\ last.alive
    /\ last.failed = 2
    /\ Url(last.batch.op, 1) \in imgBucket

\* ===================================================================== C8
\* the row the store holds for save sv once its write succeeded
StoredRow(sv) ==
    IF sv.data.id = NoId THEN rows[Len(rows)]
    ELSE rows[CHOOSE i \in DOMAIN rows : rows[i].id = sv.data.id]

\* C8: a save whose drive-time recomputation yields no value still issues
\* its store write, and the row written carries the draft's previous
\* drive_time_minutes, which is null for a new record.
C8_NoValueKeepsDriveTime ==
    /\ \A sv \in saves : sv.calc # <<>> => sv.pc = "write"
    /\ \A sv \in Written :
         /\ Len(Writes(sv)) = 1
         /\ sv.calc = <<Null>> =>
              Writes(sv)[1].row.drive_time_minutes = sv.data.drive_time_minutes
         /\ sv.data.id = NoId => sv.data.drive_time_minutes = Null
    /\ (last.kind = "saveOk" /\ last.save.calc = <<Null>>) =>
         StoredRow(last.save).drive_time_minutes = last.save.data.drive_time_minutes

C8_Witness ==
    /\ apiKey
    /\ last.kind = "saveOk"
    /\ last.save.calc = <<Null>>
    /\ last.save.data.drive_time_minutes = Num(30)
    /\ StoredRow(last.save).drive_time_minutes = Num(30)

\* ===================================================================== C9
\* C9 as claimed: after a fetch that fails the in-memory list is empty, the
\* loading flag is false and no retry is issued.
C9_FailedFetchLeavesListEmpty ==
    last.kind = "fetchFail" =>
        /\ venues = <<>>
        /\ ~listLoading
        /\ nFetch = last.started

\* C9 amended: after a fetch that fails the in-memory list is what it was
\* before (empty when it is the initial fetch and none succeeded), the
\* loading flag is false and no retry is issued.
C9_FailedFetchLeavesListUnchanged ==
    last.kind = "fetchFail" =>
        /\ venues = last.before
        /\ (nFetch = 1 => venues = <<>>)
        /\ ~listLoading
        /\ nFetch = last.started
        /\ Cardinality(fetches) = last.inFlight
        /\ \A f \in fetches : f.fid # last.fid

C9_Witness ==
    /\ last.kind = "fetchFail"
    /\ last.fid = 2
    /\ venues # <<>>

\* ==================================================================== C10
\* d is a run of digits followed by "s"
IsSeconds(d) ==
    /\ Len(d) >= 2
    /\ d[Len(d)] = "s"
    /\ \A i \in 1..(Len(d) - 1) : IsDigit(d[i])

\* d has no leading digit run
NoLeadingDigit(d) == d = <<>> \/ ~IsDigit(d[1])

\* the number a run of digits denotes
RECURSIVE Decimal(_)
Decimal(d) ==
    IF d = <<>> THEN 0 ELSE 10 * Decimal(SubSeq(d, 1, Len(d) - 1)) + DigitVal(d[Len(d)])

\* C10: calculateDriveTime returns round(seconds / 60) for a duration that is
\* a run of digits followed by "s", and null without API key, for a failed
\* request, a non-2xx status, no routes, a missing duration and a duration
\* with no leading digit run; it never returns a non-integer, so the save
\* never writes one.
C10_MinutesOrNull ==
    last.kind = "driveTime" =>
        LET resp == last.resp
            got == last.calculatedTime
        IN  /\ got = Null \/ got.k = "num"
            /\ last.saved = Null \/ last.saved.k = "num"
            /\ (~apiKey \/ resp.kind # "ok") => got = Null
            /\ (resp.kind = "ok" /\ resp.routes = <<>>) => got = Null
            /\ (apiKey /\ resp.kind = "ok" /\ resp.routes # <<>>) =>
                 LET d == resp.routes[1].duration
                 IN  /\ IsSeconds(d) =>
                          got = Num((Decimal(SubSeq(d, 1, Len(d) - 1)) + 30) \div 60)
                     /\ NoLeadingDigit(d) => got = Null
\* ==================================================================== C11
\* the operations of a form session that touch the storage buckets or the
\* images of the draft
StorageNext ==
    \/ ImagesNext
    \/ handleBrochureUpload
    \/ \E b \in brochures : BrochureOk(b) \/ BrochureFail(b)

SpecStorage == InitImages /\ [][StorageNext]_vars

\* C11: no step removes an object from the image bucket or the brochure
\* bucket, and removeImage(index) drops exactly the element at index from
\* images, the others keeping their order, while the object of the removed
\* image stays in the bucket.
C11_NothingDeleted ==
    /\ [][imgBucket \subseteq imgBucket' /\ brochureBucket \subseteq brochureBucket']_vars
    /\ [](last.kind = "remove" =>
            LET before == last.before
                i == last.index + 1
            IN  /\ Len(formData.images) = Len(before) - 1
                /\ \A j \in 1..(i - 1) : formData.images[j] = before[j]
                /\ \A j \in i..(Len(before) - 1) : formData.images[j] = before[j + 1]
                /\ imgBucket = last.bucket
                /\ before[i] \in imgBucket)

C11_Witness ==
    /\ last.kind = "remove"
    /\ last.before[last.index + 1].op # 0
    /\ last.before[last.index + 1] \in imgBucket
    /\ \A j \in DOMAIN formData.images : formData.images[j] # last.before[last.index + 1]
    /\ brochureBucket # {}
\* ==================================================================== C12
\* s is a rearrangement of t (the rows of t have distinct ids)
IsPermutation(s, t) ==
    /\ Len(s) = Len(t)
    /\ \A i \in DOMAIN t : \E j \in DOMAIN s : s[j] = t[i]
    /\ \A i \in DOMAIN s : \A j \in DOMAIN s : s[i] = s[j] => i = j

\* the price has a digit run
HasDigitRun(p) ==
    /\ p # Null
    /\ p # Unavailable
    /\ \E i \in DOMAIN p.v : IsDigit(p.v[i])

\* the integer of the first digit run of the price with its commas removed
FirstRun(p) ==
    LET q == RemoveCommas(p.v)
        first == CHOOSE i \in DOMAIN q : IsDigit(q[i]) /\ \A j \in 1..(i - 1) : ~IsDigit(q[j])
        end == CHOOSE i \in first..Len(q) :
                  /\ \A j \in first..i : IsDigit(q[j])
                  /\ (i = Len(q) \/ ~IsDigit(q[i + 1]))
    IN  Decimal(SubSeq(q, first, end))

\* C12: sorted by price_saturday the list is a permutation of the fetched
\* venues, every record whose price is null, empty, "Unavailable" or without
\* a digit run comes after every record whose price has a digit run, and the
\* records with a digit run ascend by the integer of their first digit run
\* after commas are removed.
C12_SortedByPrice ==
    sortOption = "price_saturday" =>
        LET s == sortedVenues
        IN  /\ IsPermutation(s, venues)
            /\ \A i \in DOMAIN s : \A j \in DOMAIN s :
                 (i < j /\ HasDigitRun(s[j].price_saturday)) =>
                    /\ HasDigitRun(s[i].price_saturday)
                    /\ FirstRun(s[i].price_saturday) <= FirstRun(s[j].price_saturday)

C12_Witness ==
    /\ sortOption = "price_saturday"
    /\ Len(venues) = 3
    /\ venues[1].price_saturday = Unavailable
    /\ venues[2].price_saturday = Str(<<"1", ",", "2">>)
    /\ venues[3].price_saturday = Str(<<"9">>)
    /\ sortedVenues = <<venues[3], venues[2], venues[1]>>
\* ==================================================================== C13
\* a sorts strictly before b: the drive time as key, null as +infinity
KeyLess(a, b) ==
    /\ a.drive_time_minutes # Null
    /\ b.drive_time_minutes = Null \/ a.drive_time_minutes.v < b.drive_time_minutes.v

\* C13: sorted by distance the list is a permutation of the fetched venues
\* in ascending order of drive_time_minutes, every null after every non-null,
\* records of equal key (nulls included) in their fetch order; choosing a
\* sort option leaves the fetched list itself unchanged.
C13_SortedByDistance ==
    /\ [](sortOption = "distance" =>
            LET s == sortedVenues
            IN  /\ IsPermutation(s, venues)
                /\ \A i \in DOMAIN s : \A j \in DOMAIN s :
                     i < j =>
                        /\ ~KeyLess(s[j], s[i])
                        /\ ~KeyLess(s[i], s[j]) => s[i].id < s[j].id)
    /\ [][sortOption' # sortOption => venues' = venues]_vars

C13_Witness ==
    /\ sortOption = "distance"
    /\ Len(venues) = 3
    /\ venues[1].drive_time_minutes = Null
    /\ venues[2].drive_time_minutes = Num(30)
    /\ venues[3].drive_time_minutes = Num(0)
    /\ sortedVenues = <<venues[3], venues[2], venues[1]>>
\* ==================================================================== C14
\* C14: moveImage(index, direction) swaps the image at index with its left
\* ("up") or right ("down") neighbour and leaves every other position as it
\* was; at index 0 going up and at the last index going down the sequence is
\* unchanged; the result is a permutation of the same length.
C14_MoveSwapsNeighbours ==
    last.kind = "move" =>
        LET before == last.before
            after == formData.images
            i == last.index + 1
            j == IF last.direction = "up" THEN i - 1 ELSE i + 1
        IN  /\ Len(after) = Len(before)
            /\ IsPermutation(after, before)
            /\ IF j < 1 \/ j > Len(before)
               THEN after = before
               ELSE /\ after[i] = before[j]
                    /\ after[j] = before[i]
                    /\ \A m \in DOMAIN before : m \notin {i, j} => after[m] = before[m]

C14_Witness ==
    /\ last.kind = "move"
    /\ last.direction = "down"
    /\ last.index = 0
    /\ Len(last.before) >= 3
    /\ formData.images[1] = last.before[2]
    /\ formData.images[2] = last.before[1]
    /\ formData.images[3] = last.before[3]
\* ==================================================================== C15
\* C15: a brochure upload that succeeds sets the draft's brochure_url to the
\* public URL of the uploaded object; one that fails leaves brochure_url as
\* it was; either way no other field of the draft changes and the busy flag
\* is cleared.
C15_BrochureOutcome ==
    /\ (last.kind = "brochureOk" /\ last.alive) =>
         /\ formData = [last.before EXCEPT !.brochure_url = last.url]
         /\ last.url \in brochureBucket
         /\ ~loading
    /\ (last.kind = "brochureFail" /\ last.alive) =>
         /\ formData = last.before
         /\ ~loading

C15_Witness ==
    /\ last.kind = "brochureOk"
    /\ last.alive
    /\ last.before.brochure_url # NoUrl
    /\ formData.brochure_url = last.url
    /\ formData.brochure_url # last.before.brochure_url
\* ==================================================================== C16
\* form sessions opened and cancelled from the list, and their auto-fills
AutoFillNext ==
    \/ \E i \in 1..Len(venues) : handleEdit(i)
    \/ handleCreate
    \/ handleCancel
    \/ \E v \in Names : handleChange("name", v)
    \/ \E v \in Locations : handleChange("location", v)
    \/ handleAutoFillLocation
    \/ \E a \in autofills, resp \in PlacesResponses : AutoFillResponse(a, resp)

SpecAutoFill == InitForm /\ [][AutoFillNext]_vars

\* what an auto-fill does to the draft and to the searching flag
AutoFillOutcome ==
    /\ \A a \in autofills : a.textQuery # ""
    /\ ~apiKey => autofills = {}
    /\ \A a \in autofills : Alive(a) => searching
    /\ last.kind = "autofillNoKey" => (formData = last.before /\ ~searching)
    /\ (last.kind = "autofill" /\ last.alive) =>
         /\ ~searching
         /\ formData = IF last.resp.kind = "ok" /\ last.resp.places # <<>>
                       THEN [last.before EXCEPT !.location = last.resp.places[1]]
                       ELSE last.before
    /\ (last.kind = "autofill" /\ ~last.alive) => formData = last.before

\* C16 as claimed: auto-fill sets location to the first result's address,
\* leaves it unchanged without key, on error and on zero results, issues no
\* request for an empty name, clears the searching flag, and at most one
\* auto-fill request is in flight at a time.
C16_OneAutoFillInFlight ==
    /\ AutoFillOutcome
    /\ Cardinality(autofills) <= 1

\* C16 amended: the same, with at most one auto-fill request in flight for
\* each form session.
C16_OneAutoFillPerSession ==
    /\ AutoFillOutcome
    /\ \A a1 \in autofills : \A a2 \in autofills : a1.sid = a2.sid => a1 = a2

C16_Witness ==
    /\ last.kind = "autofill"
    /\ last.alive
    /\ last.resp.kind = "ok"
    /\ last.resp.places # <<>>
    /\ formData.location = last.resp.places[1]
    /\ last.before.location # formData.location
    /\ \E a \in autofills : a.sid # session
\* ==================================================================== C17
\* C17: formatDriveTime gives no display value for null and for 0,
\* "<N> mins" for 1 <= N < 60, and "<H> hr <M> mins" for N >= 60 with
\* H = floor(N / 60) and M = N mod 60, so that 60 * H + M = N and
\* 0 <= M < 60; an exact hour is rendered with "0 mins".
C17_DriveTimeDisplay ==
    last.kind = "card" =>
        LET N == last.minutes
            out == last.driveTimeDisplay
        IN  IF N = Null \/ N.v = 0 THEN out = Null
            ELSE IF N.v < 60
            THEN /\ out # Null
                 /\ out.v = NumberString(N.v) \o MinsText
                 /\ Decimal(SubSeq(out.v, 1, Len(out.v) - Len(MinsText))) = N.v
            ELSE /\ out # Null
                 /\ \E H \in 1..N.v : \E M \in 0..59 :
                      /\ 60 * H + M = N.v
                      /\ out.v = NumberString(H) \o HrText \o NumberString(M) \o MinsText
                      /\ Decimal(NumberString(H)) = H
                      /\ Decimal(NumberString(M)) = M
                 /\ (N.v % 60 = 0) =>
                      SubSeq(out.v, Len(out.v) - 5, Len(out.v)) = <<"0">> \o MinsText

C17_Witness ==
    /\ last.kind = "card"
    /\ last.minutes = Num(120)
    /\ last.driveTimeDisplay =
         Str(<<"2", " ", "h", "r", " ", "0", " ", "m", "i", "n", "s">>)
\* ==================================================================== C18
\* C18: the loading flag is false only when no fetch is in flight, and the
\* response of an earlier-started fetch never overwrites the result of a
\* later-started one: once every fetch has completed, a response that found
\* the list equal to the store's rows leaves it equal to them.
C18_LatestFetchWins ==
    /\ ~listLoading => fetches = {}
    /\ (last.kind = "fetchOk" /\ fetches = {} /\ last.before = rows) => venues = rows
\* ==================================================================== C19
\* C19: the completion of a save whose form session was cancelled changes
\* neither the view nor the draft of the form session that is open then.
C19_StaleSaveLeavesSessions ==
    (last.kind \in {"saveOk", "saveFail"} /\ ~last.alive) =>
        /\ view = last.viewBefore
        /\ formData = last.draftBefore
====
